---- MODULE Spec2Model ----
(***************************************************************************)
(* The anodization cellular automaton of Tema1-Introduccion/anodización.py *)
(* (the CUDA kernels and the AnodizationSimulation driver).                *)
(* The CPU variant of Tema1-Introduccion/final.py is modelled further down *)
(* (CpuSpec), with its cells as <<i, j, k>>.                               *)
(*                                                                         *)
(* A lattice cell is the triple <<z, y, x>>, as the code indexes           *)
(* grid[z, y, x].  A probability is held in ten-thousandths (0.15 is       *)
(* 1500) and a draw `rand` as the integer k = random_val % 10000, so that  *)
(* rand = k / 10000.0.                                                     *)
(***************************************************************************)
EXTENDS Integers, Sequences, FiniteSets, TLC

\* ---------------------------------------------------------------- constants
\* Estados celulares (anodización.py:20-24)
M == 0
OX == 1
EF == 2
A == 3
S == 4
States == {M, OX, EF, A, S}

\* Lattice extents (anodización.py:34, scaled down)
NX == 2
NY == 1
NZ == 4
\* CUDA block edge (anodización.py:37, scaled down with the lattice)
THREADS_PER_BLOCK == 3
\* initialize_grid_3d arguments (anodización.py:202); the slab is scaled down
metal_thickness == 2
seed_z == 10
\* steps of a run (anodización.py:333, scaled down)
TotalSteps == 11
\* rand_seed = int(time.time() * 1000) is drawn from 0..MaxSeed
MaxSeed == 2
\* an uninitialised uint8 cell holds a byte of 0..MaxByte
MaxByte == 5

Bytes == 0..MaxByte

\* math.ceil(n / d) for positive integers (anodización.py:38-40)
CeilDiv(n, d) == (n + d - 1) \div d
BLOCKS_X == CeilDiv(NX, THREADS_PER_BLOCK)
BLOCKS_Y == CeilDiv(NY, THREADS_PER_BLOCK)
BLOCKS_Z == CeilDiv(NZ, THREADS_PER_BLOCK)

Cells == (0..(NZ - 1)) \X (0..(NY - 1)) \X (0..(NX - 1))

\* `z, y, x = cuda.grid(3)` with blockspergrid = (BLOCKS_X, BLOCKS_Y, BLOCKS_Z):
\* cuda.grid returns the absolute (x, y, z) thread position, so the kernel's `z`
\* runs over the BLOCKS_X blocks, `y` over BLOCKS_Y and `x` over BLOCKS_Z.
LaunchGrid ==
    (0..(BLOCKS_X * THREADS_PER_BLOCK - 1))
        \X (0..(BLOCKS_Y * THREADS_PER_BLOCK - 1))
        \X (0..(BLOCKS_Z * THREADS_PER_BLOCK - 1))

\* ------------------------------------------------------------ initialisation
\* The threads of init_grid_kernel that pass `x < NX and y < NY and z < NZ`
InitSites == {t \in LaunchGrid : t[3] < NX /\ t[2] < NY /\ t[1] < NZ}

\* The value init_grid_kernel stores at cell c
init_grid_kernel(c) ==
    IF c[1] < metal_thickness THEN M
    ELSE IF c[1] < seed_z /\ c[1] % 3 = 0 /\ c[3] % 3 = 0 /\ c[2] % 3 = 0 THEN OX
    ELSE S

\* cuda.device_array is uninitialised; the kernel overwrites the cells of InitSites
initialize_grid_3d(garbage) ==
    [c \in Cells |-> IF c \in InitSites THEN init_grid_kernel(c) ELSE garbage[c]]


\* ------------------------------------------------------------- random source
\* 0x7fffffff (anodización.py:94)
Mask31 == 2147483647

\* (a + b) mod 2^31 for a, b in 0..Mask31, without leaving 32-bit integers
AddMod31(a, b) == IF a > Mask31 - b THEN (a - (Mask31 - b)) - 1 ELSE a + b

\* (a * b) mod 2^31 for a, b in 0..Mask31, by doubling
RECURSIVE MulMod31(_, _)
MulMod31(a, b) ==
    IF b = 0 THEN 0
    ELSE AddMod31(IF b % 2 = 1 THEN a ELSE 0, MulMod31(AddMod31(a, a), b \div 2))

\* seed = x*137 + y*149 + z*101 + step + rand_seed
\* random_val = ((seed * 1103515245) + 12345) & 0x7fffffff
\* The low 31 bits of the int64 result depend only on seed mod 2^31.
random_val(z, y, x, st, rs) ==
    LET seed == AddMod31(x * 137 + y * 149 + z * 101 + st, rs)
    IN  AddMod31(MulMod31(seed, 1103515245), 12345)

\* The numerator taken modulo 100000, so that rand reaches 1.0 and beyond
rand_of_wide(rv) == rv % 100000

\* rand = (random_val % 10000) / 10000.0, held as its numerator
rand_of(rv) == rv % 10000

\* neighbor_idx = random_val % 26
neighbor_idx_of(rv) == rv % 26

\* ------------------------------------------------------------ neighbourhood
\* moore_neighborhood: the 26 triples of (-1,0,1)^3 other than (0,0,0), in the
\* order of the comprehension (first component slowest), indexed from 0
moore_neighborhood(i) ==
    LET j == IF i < 13 THEN i ELSE i + 1
    IN  <<(j \div 9) - 1, ((j \div 3) % 3) - 1, (j % 3) - 1>>

\* The neighbour taken at nz, ny, nx = z + dz, y + dy, x + dx with x left unwrapped
resolve_neighbor_nowrap(z, y, x, idx) ==
    LET d == moore_neighborhood(idx)
        nz == z + d[1]
    IN  IF nz < 0 \/ nz >= NZ THEN <<>>
        ELSE <<nz, (y + d[2]) % NY, x + d[3]>>

\* `dz, dy, dx = moore_neighborhood[neighbor_idx]`; nz = z + dz with
\* `if nz < 0 or nz >= NZ: return`; nx = nx % NX; ny = ny % NY.
\* The result is the neighbour cell, or <<>> when the thread returns.
resolve_neighbor(z, y, x, idx) ==
    LET d == moore_neighborhood(idx)
        nz == z + d[1]
    IN  IF nz < 0 \/ nz >= NZ THEN <<>>
        ELSE <<nz, (y + d[2]) % NY, (x + d[3]) % NX>>

\* One iteration of the counting loop around cell c: z2, y2, x2 = z + dz2,
\* (y + dy2) % NY, (x + dx2) % NX, counted only `if 0 <= z2 < NZ`
scan_cell(c, i) ==
    LET d == moore_neighborhood(i)
        z2 == c[1] + d[1]
    IN  IF 0 <= z2 /\ z2 < NZ THEN <<z2, (c[2] + d[2]) % NY, (c[3] + d[3]) % NX>>
        ELSE <<>>

\* count_site / count_neighbor: the offsets whose cell is oxide-like in g
count_oxide(g, c) ==
    Cardinality({i \in 0..25 :
        scan_cell(c, i) # <<>> /\ g[scan_cell(c, i)] \in {OX, EF, A}})

\* ------------------------------------------------------------- probabilities
\* Parámetros del modelo (anodización.py:27-31), in ten-thousandths
P_DISSOLUTION == 1500
P_ANION == 5000
P_EF_GEN == 8000
P_DIFF == 10000
P_BOND == 1000

\* self.params = np.array([...], dtype=np.float32), params[0] .. params[4]
DefaultParams == <<P_DISSOLUTION, P_ANION, P_EF_GEN, P_DIFF, P_BOND>>

\* The parameters are float32: 0.1, 0.15 and 0.8 are stored slightly above
\* their decimal value (0.10000000149, 0.15000000596, 0.80000001192), while 0,
\* 0.25, 0.5 and 1 are stored exactly.
F32Above == {1000, 1500, 8000}

\* The comparison taken as `rand <= params[i]`
rand_lt_inclusive(k, p) == k <= p

\* `rand < params[i]`: the float64 k / 10000.0 against the float32 parameter p
rand_lt(k, p) == k < p \/ (k = p /\ p \in F32Above)

\* p ** n scaled by 10000: <<integer part, whether it is exact>>.  Exact for the
\* parameters p that divide 10000, which are the ones the model uses for p_bond.
RECURSIVE pow_scaled(_, _)
pow_scaled(p, n) ==
    IF n = 0 THEN <<10000, TRUE>>
    ELSE LET r == pow_scaled(p, n - 1)
         IN  <<(r[1] * p) \div 10000, r[2] /\ (r[1] * p) % 10000 = 0>>

\* A shifted exponent: the gate taken as p ** (n + 1), so that equal counts
\* swap with probability p
rand_lt_pow_shifted(k, p, n) ==
    LET r == pow_scaled(p, n + 1)
    IN  IF r[2] THEN k < r[1] \/ (k = r[1] /\ p \in F32Above) ELSE k <= r[1]

\* `P_swap = params[4] ** N_diff` and `rand < P_swap`
rand_lt_pow(k, p, n) ==
    LET r == pow_scaled(p, n)
    IN  IF n = 0 THEN k < 10000
        ELSE IF r[2] THEN k < r[1] \/ (k = r[1] /\ p \in F32Above)
        ELSE k <= r[1]

\* ---------------------------------------------------------------- the rules
\* A store of the kernel is <<target, value>>: target 1 is new_grid[z, y, x],
\* target 2 is new_grid[nz, ny, nx].  Swap is the pair of stores
\* `new_grid[z, y, x] = neighbor; new_grid[nz, ny, nx] = site`.
Swap(site, neighbor) == <<(<<1, neighbor>>), (<<2, site>>)>>

\* Both gates tested by independent `if`s, neither returning
dissolve_or_incorporate_both(k, p) ==
    (IF rand_lt(k, p[1]) THEN <<(<<1, S>>)>> ELSE <<>>)
        \o (IF rand_lt(k, p[2]) THEN <<(<<1, A>>)>> ELSE <<>>)

\* Lines 117-125, for site == EF and neighbor == S: dissolution if
\* rand < params[0], else anion incorporation if rand < params[1]; <<>> when
\* neither gate passes and the chain goes on
dissolve_or_incorporate(k, p) ==
    IF rand_lt(k, p[1]) THEN <<(<<1, S>>)>>
    ELSE IF rand_lt(k, p[2]) THEN <<(<<1, A>>)>>
    ELSE <<>>

\* The forced branch taken when the Solvent side has the smaller count
reorganize_flipped(site, neighbor, k, p, cs, cn) ==
    IF (site = S /\ cs < cn) \/ (neighbor = S /\ cn < cs)
        THEN Swap(site, neighbor)
    ELSE LET N_diff == IF cs >= cn THEN cs - cn ELSE cn - cs
         IN  IF rand_lt_pow(k, p[5], N_diff) THEN Swap(site, neighbor) ELSE <<>>

\* Lines 175-185, for an {OX or A, S} pair with count_site = cs and
\* count_neighbor = cn
reorganize(site, neighbor, k, p, cs, cn) ==
    IF (site = S /\ cs > cn) \/ (neighbor = S /\ cn > cs)
        THEN Swap(site, neighbor)
    ELSE LET N_diff == IF cs >= cn THEN cs - cn ELSE cn - cs
         IN  IF rand_lt_pow(k, p[5], N_diff) THEN Swap(site, neighbor) ELSE <<>>

\* The if/elif chain of reaction_kernel (lines 110-185) for the states site and
\* neighbor read from grid, the draw k and the parameters p; cs and cn are
\* count_site and count_neighbor.  The result is the stores in program order.
apply_rules(site, neighbor, k, p, cs, cn) ==
    IF (site = M /\ neighbor = S) \/ (site = S /\ neighbor = M)
        THEN <<(<<1, OX>>), (<<2, OX>>)>>
    ELSE IF site = EF /\ neighbor = S /\ dissolve_or_incorporate(k, p) # <<>>
        THEN dissolve_or_incorporate(k, p)
    ELSE IF site = M /\ neighbor = OX /\ rand_lt(k, p[3])
        THEN <<(<<2, EF>>)>>
    ELSE IF site = M /\ neighbor = A
        THEN <<(<<1, OX>>), (<<2, OX>>)>>
    ELSE IF ((site = EF /\ neighbor = OX) \/ (site = OX /\ neighbor = EF))
            /\ rand_lt(k, p[4])
        THEN Swap(site, neighbor)
    ELSE IF ((site = EF /\ neighbor = A) \/ (site = A /\ neighbor = EF))
            /\ rand_lt(k, p[4])
        THEN Swap(site, neighbor)
    ELSE IF (site = OX /\ neighbor = S) \/ (site = A /\ neighbor = S)
            \/ (site = S /\ neighbor = OX) \/ (site = S /\ neighbor = A)
        THEN reorganize(site, neighbor, k, p, cs, cn)
    ELSE <<>>

\* ------------------------------------------------------------ one GPU thread
\* The threads of reaction_kernel that pass the guard of line 86
\* (`x >= NX or y >= NY or z >= NZ or z == 0 or z == NZ-1` returns)
ActiveSites ==
    {t \in LaunchGrid :
        t[3] < NX /\ t[2] < NY /\ t[1] < NZ /\ t[1] # 0 /\ t[1] # NZ - 1}

\* The neighbour cell that thread t samples at step st, or <<>>
sampled_neighbor(t, st, rs) ==
    resolve_neighbor(t[1], t[2], t[3],
                     neighbor_idx_of(random_val(t[1], t[2], t[3], st, rs)))

\* Every store of the thread writing the state the thread read at its own site
reaction_kernel_keeps_site(g, p, st, rs, t) ==
    LET rv == random_val(t[1], t[2], t[3], st, rs)
        n == resolve_neighbor(t[1], t[2], t[3], neighbor_idx_of(rv))
    IN  IF t \notin ActiveSites \/ n = <<>> THEN <<>>
        ELSE LET w == apply_rules(g[t], g[n], rand_of(rv), p,
                                  count_oxide(g, t), count_oxide(g, n))
             IN  [i \in 1..Len(w) |-> <<IF w[i][1] = 1 THEN t ELSE n, g[t]>>]

\* Every store of the thread made into its own cell new_grid[z, y, x]
reaction_kernel_site_only(g, p, st, rs, t) ==
    LET rv == random_val(t[1], t[2], t[3], st, rs)
        n == resolve_neighbor(t[1], t[2], t[3], neighbor_idx_of(rv))
    IN  IF t \notin ActiveSites \/ n = <<>> THEN <<>>
        ELSE LET w == apply_rules(g[t], g[n], rand_of(rv), p,
                                  count_oxide(g, t), count_oxide(g, n))
             IN  [i \in 1..Len(w) |-> <<t, w[i][2]>>]

\* reaction_kernel for thread t: the stores <<cell, value>> it makes into
\* new_grid, in program order, reading only g (the `grid` argument)
reaction_kernel(g, p, st, rs, t) ==
    LET rv == random_val(t[1], t[2], t[3], st, rs)
        n == resolve_neighbor(t[1], t[2], t[3], neighbor_idx_of(rv))
    IN  IF t \notin ActiveSites \/ n = <<>> THEN <<>>
        ELSE LET w == apply_rules(g[t], g[n], rand_of(rv), p,
                                  count_oxide(g, t), count_oxide(g, n))
             IN  [i \in 1..Len(w) |-> <<IF w[i][1] = 1 THEN t ELSE n, w[i][2]>>]

\* ------------------------------------------------------------------ state
VARIABLES
    grid,        \* self.grid: the current buffer
    new_grid,    \* self.new_grid: the next buffer
    grid_cpu,    \* self.grid_cpu: the host snapshot
    params,      \* self.params
    step,        \* self.step
    total_steps, \* self.total_steps
    rand_seed,   \* self.rand_seed
    ox_stats,    \* self.ox_stats
    time_stats,  \* self.time_stats
    phase,       \* "idle" between calls, "kernel" while reaction_kernel runs
    pc,          \* position of each active thread of the running kernel
    writers,     \* the threads of this launch that have stored into each cell of new_grid
    ret,         \* what the last call of update_simulation returned
    rule_in,     \* arguments of a single evaluation of the rule chain
    rule_out,    \* its stores
    samp_in,     \* arguments of a single neighbour resolution
    samp_out,    \* its cells
    rng_in,      \* arguments of a single evaluation of the random source
    rng_out,     \* its draw and neighbour index
    lattice,     \* final.py: the lattice of simulate_anodization
    step_start,  \* final.py: the lattice when the running step began (history)
    indices_done,\* final.py: the entries of `indices` already visited in this step
    task,        \* final.py: the locals of the loop body last executed
    bosque,      \* proyecto.py: the global `bosque`
    running,     \* proyecto.py: the global `running`
    event,       \* proyecto.py: the callback last run, with its event (history)
    clicks       \* proyecto.py: the number of button_press_event so far (history)

vars == <<grid, new_grid, grid_cpu, params, step, total_steps, rand_seed,
          ox_stats, time_stats, phase, pc, writers, ret,
          rule_in, rule_out, samp_in, samp_out, rng_in, rng_out,
          lattice, step_start, indices_done, task,
          bosque, running, event, clicks>>

simVars == <<grid, new_grid, grid_cpu, params, step, total_steps, rand_seed,
             ox_stats, time_stats, phase, pc, writers, ret>>
rngVars == <<rng_in, rng_out>>
cpuVars == <<lattice, step_start, indices_done, task>>
fireVars == <<bosque, running, event, clicks>>
probeVars == <<rule_in, rule_out, samp_in, samp_out, rngVars, cpuVars, fireVars>>

\* No single evaluation of the random source is under way
NoRng ==
    /\ rng_in = <<>>
    /\ rng_out = <<>>

\* proyecto.py has not been started
NoFire ==
    /\ bosque = <<>>
    /\ running = FALSE
    /\ event = <<>>
    /\ clicks = 0

\* simulate_anodization of final.py has not been called
NoCpu ==
    /\ lattice = <<>>
    /\ step_start = <<>>
    /\ indices_done = {}
    /\ task = <<>>

NoProbe ==
    /\ rule_in = <<>>
    /\ rule_out = <<>>
    /\ samp_in = <<>>
    /\ samp_out = <<>>
    /\ NoRng
    /\ NoCpu
    /\ NoFire

\* np.sum(g == OX)
count_ox(g) == Cardinality({c \in Cells : g[c] = OX})

\* AnodizationSimulation.__init__ (lines 191-260).  grid is what
\* initialize_grid_3d leaves in device memory; new_grid is an uninitialised
\* device array, filled here with one byte b (it is overwritten before it is read).
Init ==
    /\ \E garbage \in [Cells \ InitSites -> Bytes] :
           grid = initialize_grid_3d(garbage)
    /\ \E b \in Bytes : new_grid = [c \in Cells |-> b]
    /\ grid_cpu = grid
    /\ params = DefaultParams
    /\ step = 0
    /\ total_steps = TotalSteps
    /\ rand_seed \in 0..MaxSeed
    /\ ox_stats = <<>>
    /\ time_stats = <<>>
    /\ phase = "idle"
    /\ pc = [t \in ActiveSites |-> "done"]
    /\ writers = [c \in Cells |-> {}]
    /\ ret = "none"
    /\ NoProbe

\* The launch of reaction_kernel without the copy of grid into new_grid
Launch_nocopy ==
    /\ phase = "idle"
    /\ step < total_steps
    /\ new_grid' = new_grid
    /\ phase' = "kernel"
    /\ pc' = [t \in ActiveSites |-> "ready"]
    /\ writers' = [c \in Cells |-> {}]
    /\ UNCHANGED <<grid, grid_cpu, params, step, total_steps, rand_seed,
                   ox_stats, time_stats, ret, probeVars>>

\* update_simulation, lines 263-272: the copy of grid into new_grid and the
\* launch of reaction_kernel
Launch ==
    /\ phase = "idle"
    /\ step < total_steps
    /\ new_grid' = grid
    /\ phase' = "kernel"
    /\ pc' = [t \in ActiveSites |-> "ready"]
    /\ writers' = [c \in Cells |-> {}]
    /\ UNCHANGED <<grid, grid_cpu, params, step, total_steps, rand_seed,
                   ox_stats, time_stats, ret, probeVars>>

\* The i-th store of thread t into new_grid
Store(t, i) ==
    LET w == reaction_kernel(grid, params, step, rand_seed, t)
    IN  /\ new_grid' = [new_grid EXCEPT ![w[i][1]] = w[i][2]]
        /\ writers' = [writers EXCEPT ![w[i][1]] = @ \cup {t}]
        /\ pc' = [pc EXCEPT ![t] = IF i < Len(w) THEN "stored1" ELSE "done"]

\* Thread t runs reaction_kernel up to and including its first store (or
\* returns without one)
Thread(t) ==
    /\ phase = "kernel"
    /\ pc[t] = "ready"
    /\ IF reaction_kernel(grid, params, step, rand_seed, t) = <<>>
          THEN /\ pc' = [pc EXCEPT ![t] = "done"]
               /\ UNCHANGED <<new_grid, writers>>
          ELSE Store(t, 1)
    /\ UNCHANGED <<grid, grid_cpu, params, step, total_steps, rand_seed,
                   ox_stats, time_stats, phase, ret, probeVars>>

\* Thread t makes its second store and returns
Store2(t) ==
    /\ phase = "kernel"
    /\ pc[t] = "stored1"
    /\ Store(t, 2)
    /\ UNCHANGED <<grid, grid_cpu, params, step, total_steps, rand_seed,
                   ox_stats, time_stats, phase, ret, probeVars>>

\* The end of a step with the host snapshot never refreshed
Finish_stale ==
    /\ phase = "kernel"
    /\ \A t \in ActiveSites : pc[t] = "done"
    /\ grid' = new_grid
    /\ new_grid' = grid
    /\ grid_cpu' = grid_cpu
    /\ IF step % 10 = 0
          THEN /\ ox_stats' = Append(ox_stats, count_ox(grid_cpu'))
               /\ time_stats' = Append(time_stats, "elapsed")
          ELSE UNCHANGED <<ox_stats, time_stats>>
    /\ step' = step + 1
    /\ ret' = "True"
    /\ phase' = "idle"
    /\ UNCHANGED <<params, total_steps, rand_seed, pc, writers, probeVars>>

\* update_simulation, lines 274-289, once every thread of the kernel has
\* returned: the swap, the host copy every 5 steps, the statistics every 10
Finish ==
    /\ phase = "kernel"
    /\ \A t \in ActiveSites : pc[t] = "done"
    /\ grid' = new_grid
    /\ new_grid' = grid
    /\ grid_cpu' = IF step % 5 = 0 THEN grid' ELSE grid_cpu
    /\ IF step % 10 = 0
          THEN /\ ox_stats' = Append(ox_stats, count_ox(grid_cpu'))
               /\ time_stats' = Append(time_stats, "elapsed")
          ELSE UNCHANGED <<ox_stats, time_stats>>
    /\ step' = step + 1
    /\ ret' = "True"
    /\ phase' = "idle"
    /\ UNCHANGED <<params, total_steps, rand_seed, pc, writers, probeVars>>

\* The early return taken after exchanging the two buffers
Stop_swaps ==
    /\ phase = "idle"
    /\ step >= total_steps
    /\ grid' = new_grid
    /\ new_grid' = grid
    /\ ret' = "False"
    /\ UNCHANGED <<grid_cpu, params, step, total_steps,
                   rand_seed, ox_stats, time_stats, phase, pc, writers, probeVars>>

\* update_simulation, lines 263-264: `if self.step >= self.total_steps: return False`
Stop ==
    /\ phase = "idle"
    /\ step >= total_steps
    /\ ret' = "False"
    /\ UNCHANGED <<grid, new_grid, grid_cpu, params, step, total_steps,
                   rand_seed, ox_stats, time_stats, phase, pc, writers, probeVars>>

Next ==
    \/ Launch
    \/ \E t \in ActiveSites : Thread(t)
    \/ \E t \in ActiveSites : Store2(t)
    \/ Finish
    \/ Stop

Spec == Init /\ [][Next]_vars

\* --------------------------------------------- the rule chain on chosen inputs
\* The largest count_site / count_neighbor tried (the code's maximum is 26)
MaxCount == 3

\* Draws tried: the ends of the range and the values around every threshold
Draws == {0, 1, 2, 10, 11, 12, 100, 101, 102, 1000, 1001, 1002, 1499, 1500,
          1501, 1502, 2499, 2500, 2501, 4999, 5000, 5001, 6499, 6500, 6501,
          7999, 8000, 8001, 8002, 9999}

\* Parameter vectors tried: the defaults, both reaction gates shut, p_anion
\* below p_dissolution with p_field_gen = 1, and p_bond = 1
Configs == {DefaultParams,
            <<0, 0, 8000, 10000, 1000>>,
            <<5000, 1500, 10000, 5000, 5000>>,
            <<2500, 2500, 0, 0, 10000>>}

\* No simulation object exists in the single-evaluation specifications
NoSim ==
    /\ grid = <<>>
    /\ new_grid = <<>>
    /\ grid_cpu = <<>>
    /\ params = <<>>
    /\ step = 0
    /\ total_steps = 0
    /\ rand_seed = 0
    /\ ox_stats = <<>>
    /\ time_stats = <<>>
    /\ phase = "none"
    /\ pc = <<>>
    /\ writers = <<>>
    /\ ret = "none"

RuleInit ==
    /\ NoSim
    /\ rule_in \in [site : Bytes, neighbor : Bytes, k : Draws, p : Configs,
                    cs : 0..MaxCount, cn : 0..MaxCount]
    /\ rule_out = [done |-> FALSE, stores |-> <<>>]
    /\ samp_in = <<>>
    /\ samp_out = <<>>
    /\ NoRng
    /\ NoCpu
    /\ NoFire

\* One evaluation of the if/elif chain of reaction_kernel
EvalRules ==
    /\ ~rule_out.done
    /\ rule_out' = [done |-> TRUE,
                    stores |-> apply_rules(rule_in.site, rule_in.neighbor,
                                           rule_in.k, rule_in.p,
                                           rule_in.cs, rule_in.cn)]
    /\ UNCHANGED <<simVars, rule_in, samp_in, samp_out, rngVars, cpuVars, fireVars>>

RuleNext == EvalRules

RuleSpec == RuleInit /\ [][RuleNext]_vars

\* ------------------------------------- neighbour resolution on chosen inputs
SampInit ==
    /\ NoSim
    /\ rule_in = <<>>
    /\ rule_out = <<>>
    /\ samp_in \in [site : ActiveSites, idx : 0..25, i2 : 0..25]
    /\ samp_out = [done |-> FALSE, nbr |-> <<>>, scan_site |-> <<>>,
                   scan_nbr |-> <<>>]
    /\ NoRng
    /\ NoCpu
    /\ NoFire

\* Lines 97-108 for the primary site and offset index idx, then iteration i2 of
\* the counting loop (lines 163-173) around the site and around the neighbour
EvalNeighbor ==
    /\ ~samp_out.done
    /\ LET t == samp_in.site
           n == resolve_neighbor(t[1], t[2], t[3], samp_in.idx)
       IN  samp_out' = [done |-> TRUE,
                        nbr |-> n,
                        scan_site |-> scan_cell(t, samp_in.i2),
                        scan_nbr |-> IF n = <<>> THEN <<>>
                                     ELSE scan_cell(n, samp_in.i2)]
    /\ UNCHANGED <<simVars, rule_in, rule_out, samp_in, rngVars, cpuVars, fireVars>>

SampNext == EvalNeighbor

SampSpec == SampInit /\ [][SampNext]_vars

\* ------------------------------------------------ the CPU variant (final.py)
\* Lattice size, LxLxL (final.py:14, scaled down; initialize_lattice writes
\* layer k = 2, so L is at least 3)
L == 3
\* The run of simulate_anodization is followed for its first MaxTasks site-tasks
MaxTasks == 2

\* final.py:16-19, in ten-thousandths
P_REACTION == 2000
P_DISSOLUTION_cpu == 1000
P_ANION_cpu == 1000
P_BOND_cpu == 2000

\* A lattice cell is <<i, j, k>>, as final.py indexes lattice[i, j, k]
CpuCells == (0..(L - 1)) \X (0..(L - 1)) \X (0..(L - 1))

\* Values of random.random() tried, in ten-thousandths: below and above every
\* threshold
CpuDraws == {0, 9999}

\* Positions of `neighbors` that random.choice is allowed to return: the
\* offsets (0, 0, -1), (0, 0, +1) and (+1, 0, 0)
Picks == {13, 14, 22}

\* The columns (i, j) of layer k = 2 in which the draws of initialize_lattice
\* may place ElectricField or Anion
SeedColumns == {<<0, 0>>}

\* initialize_lattice: Solvent, layer k = 0 Metal, layer k = 1 Oxide, and in
\* layer k = 2 what the two draws of each column left (top[i, j])
initialize_lattice(top) ==
    [c \in CpuCells |->
        IF c[3] = 0 THEN M
        ELSE IF c[3] = 1 THEN OX
        ELSE IF c[3] = 2 THEN top[<<c[1], c[2]>>]
        ELSE S]

\* get_moore_neighborhood(i, j, k, L): every offset is reduced modulo L on the
\* three axes and then kept `if nk >= 0 and nk < L`
get_moore_neighborhood(i, j, k, len) ==
    LET all == [n \in 1..26 |->
                   LET d == moore_neighborhood(n - 1)
                   IN  <<(i + d[1]) % len, (j + d[2]) % len, (k + d[3]) % len>>]
    IN  SelectSeq(all, LAMBDA c : c[3] >= 0 /\ c[3] < len)

\* apply_rules of final.py for the states state1 and state2 and the values r1,
\* r2, r3 of its three random.random() calls
cpu_apply_rules(state1, state2, r1, r2, r3) ==
    LET pair == {state1, state2}
    IN  IF r1 < P_REACTION /\ pair = {M, S} THEN <<OX, OX>>
        ELSE IF r1 < P_REACTION /\ pair = {EF, S} /\ r2 < P_DISSOLUTION_cpu
            THEN <<S, S>>
        ELSE IF r1 < P_REACTION /\ pair = {EF, S} /\ r3 < P_ANION_cpu
            THEN <<A, S>>
        ELSE IF r1 < P_REACTION /\ pair = {M, A} THEN <<OX, OX>>
        ELSE IF r1 < P_REACTION /\ pair = {M, OX} THEN <<M, EF>>
        ELSE IF pair = {EF, OX} THEN <<OX, EF>>
        ELSE IF pair = {EF, A} THEN <<A, EF>>
        ELSE IF pair = {S, OX} THEN <<OX, S>>
        ELSE IF pair = {S, A} THEN <<A, S>>
        ELSE <<state1, state2>>

\* count_oxide_neighbors(lattice, i, j, k)
count_oxide_neighbors(lat, c) ==
    LET nb == get_moore_neighborhood(c[1], c[2], c[3], L)
    IN  Cardinality({n \in 1..Len(nb) : lat[nb[n]] \in {OX, EF, A}})

\* surface_reorganization for the cells c and n of lat and the draw r
surface_reorganization(lat, c, n, r) ==
    LET state1 == lat[c]
        state2 == lat[n]
    IN  IF (state1 \in {OX, A} /\ state2 = S) \/ (state2 \in {OX, A} /\ state1 = S)
        THEN LET n1 == count_oxide_neighbors(lat, c)
                 n2 == count_oxide_neighbors(lat, n)
                 N == IF state1 \in {OX, A} THEN n1 - n2 ELSE n2 - n1
                 pw == pow_scaled(P_BOND_cpu, IF N > 0 THEN N ELSE 0)
             IN  IF N < 0 \/ (IF pw[2] THEN r < pw[1] ELSE r <= pw[1])
                 THEN <<state2, state1>>
                 ELSE <<state1, state2>>
        ELSE <<state1, state2>>

\* `lattice[i, j, k], lattice[ni, nj, nk] = new_state1, new_state2`
assign_pair(lat, c, n, new) == [[lat EXCEPT ![c] = new[1]] EXCEPT ![n] = new[2]]

\* simulate_anodization up to its main loop (final.py:108)
CpuInit ==
    /\ NoSim
    /\ rule_in = <<>>
    /\ rule_out = <<>>
    /\ samp_in = <<>>
    /\ samp_out = <<>>
    /\ NoRng
    /\ NoFire
    /\ \E top \in [(0..(L - 1)) \X (0..(L - 1)) -> {S, EF, A}] :
           /\ \A col \in DOMAIN top : col \notin SeedColumns => top[col] = S
           /\ lattice = initialize_lattice(top)
    /\ step_start = lattice
    /\ indices_done = {}
    /\ task = <<>>

\* One iteration of `for i, j, k in indices` (final.py:120-132): the next entry
\* of the shuffled indices is any cell not visited yet in this step
SiteTask ==
    /\ lattice # <<>>
    /\ Cardinality(indices_done) < MaxTasks
    /\ \E c \in CpuCells \ indices_done, pick \in Picks,
          r1 \in CpuDraws, r2 \in CpuDraws, r3 \in CpuDraws, r4 \in CpuDraws :
          LET neighbors == get_moore_neighborhood(c[1], c[2], c[3], L)
              n == neighbors[pick]
              lat1 == assign_pair(lattice, c, n,
                          cpu_apply_rules(lattice[c], lattice[n], r1, r2, r3))
              lat2 == assign_pair(lat1, c, n, surface_reorganization(lat1, c, n, r4))
          IN  /\ neighbors # <<>>
              /\ lattice' = lat2
              /\ indices_done' = indices_done \cup {c}
              /\ task' = [site |-> c, neighbors |-> neighbors, nbr |-> n]
    /\ UNCHANGED <<simVars, rule_in, rule_out, samp_in, samp_out, rngVars, step_start,
                   fireVars>>

CpuNext == SiteTask

CpuSpec == CpuInit /\ [][CpuNext]_vars

\* =============================================================== properties
\* The previous buffer and step index of the step that has just completed:
\* after the swap of line 275 new_grid holds the buffer the step read.
StepDone == phase = "idle" /\ step > 0

\* C1: in one launch of reaction_kernel every cell of new_grid is stored into
\* by at most one thread.
C1_AtMostOneWriter == \A c \in Cells : Cardinality(writers[c]) <= 1

\* t precedes u in (z, y, x) order
LexLeq(t, u) ==
    \/ t[1] < u[1]
    \/ t[1] = u[1] /\ t[2] < u[2]
    \/ t[1] = u[1] /\ t[2] = u[2] /\ t[3] <= u[3]

\* The threads of T in (z, y, x) order
RECURSIVE InOrder(_)
InOrder(T) ==
    IF T = {} THEN <<>>
    ELSE LET m == CHOOSE t \in T : \A u \in T : LexLeq(t, u)
         IN  <<m>> \o InOrder(T \ {m})

\* g after the stores w, applied first to last
RECURSIVE AfterStores(_, _)
AfterStores(g, w) ==
    IF w = <<>> THEN g
    ELSE AfterStores([g EXCEPT ![w[1][1]] = w[1][2]], Tail(w))

\* The next buffer when the threads of ts run one after the other, each reading old
RECURSIVE SerialStep(_, _, _, _, _, _)
SerialStep(old, next, p, st, rs, ts) ==
    IF ts = <<>> THEN next
    ELSE SerialStep(old, AfterStores(next, reaction_kernel(old, p, st, rs, ts[1])),
                    p, st, rs, Tail(ts))

\* C2: the buffer after a step is determined by the buffer before it and the
\* draws of the step, whatever the order in which the threads ran: it is the
\* buffer that running the threads one by one in (z, y, x) order produces.
C2_Deterministic ==
    StepDone =>
        grid = SerialStep(new_grid, new_grid, params, step - 1, rand_seed,
                          InOrder(ActiveSites))

\* C3: after initialisation and after every step each site holds one of the five
\* states, so the five per-state counts sum to NX*NY*NZ.
C3_Conservation ==
    phase = "idle" =>
        /\ \A c \in Cells : grid[c] \in States
        /\ Cardinality({c \in Cells : grid[c] = M})
             + Cardinality({c \in Cells : grid[c] = OX})
             + Cardinality({c \in Cells : grid[c] = EF})
             + Cardinality({c \in Cells : grid[c] = A})
             + Cardinality({c \in Cells : grid[c] = S}) = NX * NY * NZ

\* C4: when a thread of the completed step selected a pair that was
\* {Metal, Solvent} in the buffer it read, both cells are Oxide after the step.
C4_MetalSolventBecomesOxide ==
    StepDone =>
        \A t \in ActiveSites :
            LET n == sampled_neighbor(t, step - 1, rand_seed)
            IN  (n # <<>> /\ {new_grid[t], new_grid[n]} = {M, S})
                    => (grid[t] = OX /\ grid[n] = OX)

\* ---------------------------------------------- single evaluations of the rules
RuleDone == phase = "none" /\ rule_in # <<>> /\ rule_out.done

\* The evaluated pair is {a, b}
PairIs(a, b) ==
    \/ rule_in.site = a /\ rule_in.neighbor = b
    \/ rule_in.site = b /\ rule_in.neighbor = a

\* The target (1 site, 2 neighbour) holding state a in the evaluated pair
SideOf(a) == IF rule_in.site = a THEN 1 ELSE 2

\* The evaluation stored value v at target tg
Stored(tg, v) == \E i \in 1..Len(rule_out.stores) : rule_out.stores[i] = <<tg, v>>

Swapped == rule_out.stores = Swap(rule_in.site, rule_in.neighbor)

\* C5: on one draw an {ElectricField, Solvent} pair gets at most one of
\* dissolution (ElectricField side := Solvent) and anion incorporation
\* (ElectricField side := Anion).
C5_DissolutionXorAnion ==
    (RuleDone /\ PairIs(EF, S))
        => ~(Stored(SideOf(EF), S) /\ Stored(SideOf(EF), A))

\* C5 witness: a draw below both thresholds, on which only dissolution is applied
C5_Witness ==
    /\ RuleDone
    /\ rule_in.site = EF /\ rule_in.neighbor = S
    /\ rand_lt(rule_in.k, rule_in.p[1]) /\ rand_lt(rule_in.k, rule_in.p[2])
    /\ rule_out.stores = <<(<<1, S>>)>>

\* C6: anion incorporation is applied to an {ElectricField, Solvent} pair
\* exactly when p_dissolution <= rand < p_dissolution + p_anion.  Stated for the
\* orientation the kernel tests (ElectricField at the primary site); the two
\* ends of the window, where the float32 rounding of a parameter decides, are
\* left free: inside the window the Anion store is required, outside forbidden.
C6_AnionWindow ==
    (RuleDone /\ rule_in.site = EF /\ rule_in.neighbor = S)
        => /\ (rule_in.p[1] < rule_in.k /\ rule_in.k < rule_in.p[1] + rule_in.p[2])
                 => Stored(1, A)
           /\ Stored(1, A)
                 => (rule_in.p[1] <= rule_in.k
                       /\ rule_in.k <= rule_in.p[1] + rule_in.p[2])

\* Oxide-like count of the Solvent side and of the other side of the pair
SolventCount == IF rule_in.site = S THEN rule_in.cs ELSE rule_in.cn
OtherCount == IF rule_in.site = S THEN rule_in.cn ELSE rule_in.cs

ReorgPair == PairIs(OX, S) \/ PairIs(A, S)

\* Some draw leaves the evaluated pair, with its counts, unswapped
SomeDrawFails ==
    \E k \in Draws :
        apply_rules(rule_in.site, rule_in.neighbor, k, rule_in.p,
                    rule_in.cs, rule_in.cn) = <<>>

\* C7 as stated: the swap of an {Oxide or Anion, Solvent} pair is applied on
\* every draw exactly when the Solvent side has strictly fewer oxide-like
\* neighbours than the other side.
C7_ForcedWhenSolventFewer ==
    (RuleDone /\ ReorgPair)
        => /\ SolventCount < OtherCount => Swapped
           /\ SolventCount >= OtherCount => SomeDrawFails

\* C7 amended: for p_bond < 1 the swap is applied on every draw exactly when
\* the Solvent side has at least as many oxide-like neighbours as the other
\* side (strictly more is the forced branch, equal counts give p_bond ** 0 = 1).
C7_ForcedWhenSolventNotFewer ==
    (RuleDone /\ ReorgPair /\ rule_in.p[5] < 10000)
        => /\ SolventCount >= OtherCount => Swapped
           /\ SolventCount < OtherCount => SomeDrawFails

\* C7 witness: the forced branch swaps on a draw that fails every gate
C7_Witness ==
    /\ RuleDone /\ PairIs(OX, S)
    /\ rule_in.p[5] = P_BOND /\ rule_in.k = 9999
    /\ SolventCount > OtherCount
    /\ Swapped

\* The probabilistic branch of rule #8, with p_bond in (0, 1)
ProbBranch ==
    /\ RuleDone /\ ReorgPair
    /\ SolventCount <= OtherCount
    /\ 0 < rule_in.p[5] /\ rule_in.p[5] < 10000

NDiff == OtherCount - SolventCount

\* The evaluated draw with the Solvent-side count kept and the difference n
SwapsAt(n) ==
    apply_rules(rule_in.site, rule_in.neighbor, rule_in.k, rule_in.p,
                IF rule_in.site = S THEN SolventCount ELSE SolventCount + n,
                IF rule_in.site = S THEN SolventCount + n ELSE SolventCount)
        = Swap(rule_in.site, rule_in.neighbor)

\* The draws that swap at N also swap at every smaller difference, so the swap
\* probability does not increase with N
Monotone == Swapped => \A n \in 0..NDiff : SwapsAt(n)

\* C8 as stated: the swap probability is non-increasing in N and at N = 0 it
\* is p_bond, the swap firing exactly for the draws rand < p_bond.
C8_ProbabilityPBondAtZero ==
    ProbBranch
        => /\ Monotone
           /\ NDiff = 0 => (Swapped <=> rand_lt(rule_in.k, rule_in.p[5]))

\* C8 amended: the swap probability is non-increasing in N; at N = 0 it is
\* p_bond ** 0 = 1 (the swap fires on every draw) and at N = 1 it is p_bond.
C8_ProbabilityOneAtZero ==
    ProbBranch
        => /\ Monotone
           /\ NDiff = 0 => Swapped
           /\ NDiff = 1 => (Swapped <=> rand_lt(rule_in.k, rule_in.p[5]))

\* C8 witness: equal counts swap on a draw that is not below p_bond
C8_Witness ==
    /\ ProbBranch
    /\ NDiff = 0
    /\ rule_in.p[5] = P_BOND /\ rule_in.k = 9999
    /\ Swapped

\* The stores of the evaluation with the two cells exchanged, retargeted
MirrorStores ==
    LET w == apply_rules(rule_in.neighbor, rule_in.site, rule_in.k, rule_in.p,
                         rule_in.cn, rule_in.cs)
    IN  {<<3 - w[i][1], w[i][2]>> : i \in 1..Len(w)}

\* C9: the outcome does not depend on which cell of the pair is the primary
\* site; a {Metal, Anion} pair turns both cells into Oxide and a {Metal, Oxide}
\* pair with rand < p_field_gen turns the Oxide side into ElectricField.
C9_UnorderedPair ==
    RuleDone
        => /\ {rule_out.stores[i] : i \in 1..Len(rule_out.stores)} = MirrorStores
           /\ PairIs(M, A) => (Stored(1, OX) /\ Stored(2, OX))
           /\ (PairIs(M, OX) /\ rand_lt(rule_in.k, rule_in.p[3]))
                 => Stored(SideOf(OX), EF)

\* ------------------------------------------- single resolutions of a neighbour
SampDone == phase = "none" /\ samp_in # <<>> /\ samp_out.done

\* v + d on a periodic axis of extent n, for d in {-1, 0, 1}
Wrapped(v, d, n) == IF v + d = n THEN 0 ELSE IF v + d = -1 THEN n - 1 ELSE v + d

\* Cell c displaced by offset d: closed in z, periodic in y and x
Displaced(c, d) ==
    IF c[1] + d[1] < 0 \/ c[1] + d[1] > NZ - 1 THEN <<>>
    ELSE <<c[1] + d[1], Wrapped(c[2], d[2], NY), Wrapped(c[3], d[3], NX)>>

\* C10: the neighbour of a primary site, and every cell scanned around the site
\* and the neighbour, has z + dz inside 0..NZ-1 or is skipped, never wrapped,
\* while y and x wrap modulo the extent.
C10_BoundaryPolicy ==
    SampDone
        => /\ samp_out.nbr = Displaced(samp_in.site, moore_neighborhood(samp_in.idx))
           /\ samp_out.nbr # <<>>
           /\ samp_out.nbr \in Cells
           /\ samp_out.scan_site
                 = Displaced(samp_in.site, moore_neighborhood(samp_in.i2))
           /\ samp_out.scan_nbr
                 = Displaced(samp_out.nbr, moore_neighborhood(samp_in.i2))
           /\ samp_out.scan_nbr # <<>> => samp_out.scan_nbr \in Cells

\* C10 witness: x = NX-1 with dx = +1 resolves to x = 0, and a scan around a
\* neighbour on the z = 0 face skips the cell below the lattice
C10_Witness ==
    /\ SampDone
    /\ samp_in.site[3] = NX - 1
    /\ moore_neighborhood(samp_in.idx)[3] = 1
    /\ samp_out.nbr[3] = 0
    /\ samp_out.nbr[1] = 0
    /\ samp_out.scan_nbr = <<>>

\* ------------------------------------------------------- the z-faces (C11)
\* C11: the primary site of a rule evaluation is never a cell of the faces
\* k = 0 and k = L-1; checked on the site-tasks of simulate_anodization.
C11_FaceNeverPrimary ==
    task # <<>> => task.site[3] \notin {0, L - 1}

\* ------------------------------------------------- the field scenario (C12)
\* rand_seed of the scenario runs is drawn from 0..MaxScenSeed
MaxScenSeed == 25

\* The scenario lattice on the model's extents: Metal only at one interior site,
\* Oxide only at the cell above it on the top z-face, Solvent everywhere else
ScenMetal == <<NZ - 2, 0, 0>>
ScenOxide == <<NZ - 1, 0, 0>>
ScenGrid ==
    [c \in Cells |-> IF c = ScenMetal THEN M ELSE IF c = ScenOxide THEN OX ELSE S]

\* The default parameters with p_field_gen = 1.0
ScenParams == <<P_DISSOLUTION, P_ANION, 10000, P_DIFF, P_BOND>>

\* AnodizationSimulation(steps=1) holding the scenario lattice and parameters
ScenInit ==
    /\ grid = ScenGrid
    /\ \E b \in Bytes : new_grid = [c \in Cells |-> b]
    /\ grid_cpu = grid
    /\ params = ScenParams
    /\ step = 0
    /\ total_steps = 1
    /\ rand_seed \in 0..MaxScenSeed
    /\ ox_stats = <<>>
    /\ time_stats = <<>>
    /\ phase = "idle"
    /\ pc = [t \in ActiveSites |-> "done"]
    /\ writers = [c \in Cells |-> {}]
    /\ ret = "none"
    /\ NoProbe

ScenSpec == ScenInit /\ [][Next]_vars

\* The one step of the scenario has completed
ScenDone == phase = "idle" /\ step = 1

C13_NoConversionAtZero ==
    (RuleDone /\ rule_in.p[1] = 0 /\ rule_in.p[2] = 0 /\ PairIs(EF, S))
        => rule_out.stores = <<>>

\* C13 witness: the smallest draw, rand = 0.0, on an (ElectricField, Solvent)
\* pair with both parameters 0 stores nothing
C13_Witness ==
    /\ RuleDone
    /\ rule_in.site = EF /\ rule_in.neighbor = S
    /\ rule_in.p[1] = 0 /\ rule_in.p[2] = 0
    /\ rule_in.k = 0
    /\ rule_out.stores = <<>>

\* ------------------------------------------------ the buffer a step reads (C14)
\* C14: while a step runs, the buffer the site-tasks read is the one the step
\* began with: no site-task has written it.
C14_CurrentBufferReadOnly ==
    lattice # <<>> => lattice = step_start

\* -------------------------------------------------------- driver progress (C15)
\* C15: step starts at 0, every transition leaves it alone or adds exactly 1
\* (and then update_simulation returns True), it never exceeds total_steps, and
\* once step has reached total_steps a call of update_simulation returns False
\* and changes neither buffer, nor step, nor the statistics.
C15_DriverProgress ==
    /\ step = 0
    /\ [](step <= total_steps)
    /\ [][step' = step \/ (step' = step + 1 /\ ret' = "True")]_vars
    /\ [][step >= total_steps
            => (ret' = "False"
                /\ UNCHANGED <<grid, new_grid, step, ox_stats, time_stats>>)]_vars

\* C15 witness: the run is complete and a further call has returned False
C15_Witness ==
    /\ step = total_steps
    /\ total_steps = TotalSteps
    /\ ret = "False"
    /\ grid # new_grid

\* ------------------------------------------------------------ statistics (C16)
\* C16: ox_stats and time_stats always have the same length; a transition
\* either leaves both alone or appends one entry to each, keeping the earlier
\* entries, and the entry appended to ox_stats is the number of Oxide cells of
\* the current buffer after the swap of that step.
C16_StatisticsAppendOnly ==
    /\ [](Len(ox_stats) = Len(time_stats))
    /\ [][\/ UNCHANGED <<ox_stats, time_stats>>
          \/ /\ Len(ox_stats') = Len(ox_stats) + 1
             /\ SubSeq(ox_stats', 1, Len(ox_stats)) = ox_stats
             /\ Len(time_stats') = Len(time_stats) + 1
             /\ SubSeq(time_stats', 1, Len(time_stats)) = time_stats
             /\ ox_stats'[Len(ox_stats')] = count_ox(grid')]_vars

\* C16 witness: the second entry, appended at step 10, counts the buffer of
\* that step and differs from the entry of step 0
C16_Witness ==
    /\ phase = "idle"
    /\ step = 11
    /\ Len(ox_stats) = 2
    /\ ox_stats[2] = count_ox(grid)
    /\ ox_stats[2] # ox_stats[1]

\* ------------------------------------------------ construction arguments (C17)
\* Parameter vectors given to the constructor: the defaults, P_ANION = 1.5 and
\* P_DISSOLUTION = -0.1
CfgParams == {DefaultParams,
              <<P_DISSOLUTION, 15000, P_EF_GEN, P_DIFF, P_BOND>>,
              <<-1000, P_ANION, P_EF_GEN, P_DIFF, P_BOND>>}

\* AnodizationSimulation(steps=1) with the module parameters set to a vector of
\* CfgParams: __init__ stores them in self.params as they are
CfgInit ==
    /\ \E garbage \in [Cells \ InitSites -> Bytes] :
           grid = initialize_grid_3d(garbage)
    /\ \E b \in Bytes : new_grid = [c \in Cells |-> b]
    /\ grid_cpu = grid
    /\ params \in CfgParams
    /\ step = 0
    /\ total_steps = 1
    /\ rand_seed \in 0..MaxSeed
    /\ ox_stats = <<>>
    /\ time_stats = <<>>
    /\ phase = "idle"
    /\ pc = [t \in ActiveSites |-> "done"]
    /\ writers = [c \in Cells |-> {}]
    /\ ret = "none"
    /\ NoProbe

CfgSpec == CfgInit /\ [][Next]_vars

\* C17: under a configuration with a probability outside [0, 1] no step runs:
\* the kernel is never launched and step stays 0.
C17_FailFast ==
    (\E i \in 1..5 : params[i] < 0 \/ params[i] > 10000)
        => (phase = "idle" /\ step = 0)

\* --------------------------------------------- the random source on its own (C18)
\* Evaluations of the random source made on one input
RngCalls == 2

\* Values of rand_seed tried: int(time.time() * 1000) enters random_val only
\* through its low 31 bits, so the extremes of 0..2^31-1 are included
RngSeeds == {0, 1, 2, 12345, 1073741824, Mask31 - 1, Mask31}

RngInit ==
    /\ NoSim
    /\ rule_in = <<>>
    /\ rule_out = <<>>
    /\ samp_in = <<>>
    /\ samp_out = <<>>
    /\ NoCpu
    /\ NoFire
    /\ rng_in \in [site : ActiveSites, st : 0..TotalSteps, rs : RngSeeds]
    /\ rng_out = [calls |-> 0, first |-> <<>>, last |-> <<>>]

\* Lines 92-98 for thread rng_in.site at step rng_in.st with seed rng_in.rs:
\* <<rand (in ten-thousandths), neighbor_idx>>
EvalRng ==
    /\ rng_out.calls < RngCalls
    /\ LET t == rng_in.site
           rv == random_val(t[1], t[2], t[3], rng_in.st, rng_in.rs)
           v == <<rand_of(rv), neighbor_idx_of(rv)>>
       IN  rng_out' = [calls |-> rng_out.calls + 1,
                       first |-> IF rng_out.calls = 0 THEN v ELSE rng_out.first,
                       last |-> v]
    /\ UNCHANGED <<simVars, rule_in, rule_out, samp_in, samp_out, rng_in, cpuVars,
                   fireVars>>

RngNext == EvalRng

RngSpec == RngInit /\ [][RngNext]_vars

MatchesRule(a, b) ==
    {a, b} \in {{M, S}, {EF, S}, {M, A}, {M, OX}, {EF, OX}, {EF, A}, {OX, S}, {A, S}}

\* The pair (site, neighbor) matches no rule condition, or the gate of the rule
\* it matches fails on the draw k
NoRuleFires(site, neighbor, k, p, cs, cn) ==
    \/ ~MatchesRule(site, neighbor)
    \/ {site, neighbor} = {M, OX} /\ ~rand_lt(k, p[3])
    \/ {site, neighbor} = {EF, S} /\ ~rand_lt(k, p[1]) /\ ~rand_lt(k, p[2])
    \/ {site, neighbor} \in {{EF, OX}, {EF, A}} /\ ~rand_lt(k, p[4])
    \/ /\ {site, neighbor} \in {{OX, S}, {A, S}}
       /\ (IF site = S THEN cs <= cn ELSE cn <= cs)
       /\ ~rand_lt_pow(k, p[5], IF cs >= cn THEN cs - cn ELSE cn - cs)

\* Thread t of the completed step, which read the buffer old, fired no rule
FiredNothing(old, t) ==
    LET n == sampled_neighbor(t, step - 1, rand_seed)
        k == rand_of(random_val(t[1], t[2], t[3], step - 1, rand_seed))
    IN  n # <<>>
        /\ NoRuleFires(old[t], old[n], k, params,
                       count_oxide(old, t), count_oxide(old, n))

\* C19: a thread of the completed step whose pair matched no rule condition, or
\* whose rule's gate failed on the draw, stored into no cell, and every cell
\* that no thread stored into holds after the swap the state it had before
\* the step.
C19_PassThrough ==
    StepDone =>
        /\ \A t \in ActiveSites :
               FiredNothing(new_grid, t) => \A c \in Cells : t \notin writers[c]
        /\ \A c \in Cells : writers[c] = {} => grid[c] = new_grid[c]

\* C19 witness: a thread sampled a {Metal, Oxide} pair, the p_field_gen gate
\* failed on the draw, the thread stored nothing, and its own cell, which no
\* thread stored into, kept its state
C19_Witness ==
    /\ StepDone
    /\ \E t \in ActiveSites :
          LET n == sampled_neighbor(t, step - 1, rand_seed)
          IN  /\ FiredNothing(new_grid, t)
              /\ {new_grid[t], new_grid[n]} = {M, OX}
              /\ \A c \in Cells : t \notin writers[c]
              /\ writers[t] = {}
              /\ grid[t] = new_grid[t]

\* ------------------------------------- the neighbourhood of the CPU variant (C20)
\* C20: every cell returned by get_moore_neighborhood(i, j, k, L) has its
\* z-coordinate within one of k, so that k = 0 and k = L-1 are never
\* neighbours, and a site of a z-face gets 17 neighbours.
C20_FixedBoundariesInZ ==
    task # <<>>
        => /\ \A n \in 1..Len(task.neighbors) :
                  task.neighbors[n][3] - task.site[3] \in {-1, 0, 1}
           /\ task.site[3] \in {0, L - 1} => Len(task.neighbors) = 17

\* ------------------------------------------------------- the Metal count (C21)
\* The number of Metal cells of buffer g
MetalCount(g) == Cardinality({c \in DOMAIN g : g[c] = M})

\* C21: after every step, whatever the order in which the threads stored, the
\* buffer holds at most as many Metal cells as the buffer the step read.
C21_MetalNonIncreasing ==
    StepDone => MetalCount(grid) <= MetalCount(new_grid)

\* C21 witness: a step that consumed Metal
C21_Witness ==
    /\ StepDone
    /\ MetalCount(grid) < MetalCount(new_grid)

\* The same property for the site-tasks of final.py, where an (Oxide, Metal)
\* pair returns (M, EF): the Metal moves to the other cell of the pair
CpuMetalNonIncreasing ==
    lattice # <<>> => MetalCount(lattice) <= MetalCount(step_start)

\* ------------------------------------------- the forest fire (proyecto.py)
\* Definición de estados (proyecto.py:7-10)
NORMAL == 0
INCENDIADO == 1
QUEMADO == 2
HUMEDO == 3

\* Tamaño del bosque (proyecto.py:13, scaled down and kept square)
FILAS == 3
COLS == 3
\* button_press_event deliveries followed in a run
MaxClicks == 2

\* proyecto.py:19-21, in ten-thousandths
PROB_incendio == 9000
PROB_HUMEDAD == 1000
PROB_SECADO == 1000

\* A cell of the forest is <<fil, col>>, as the code indexes bosque[fil, col]
Parcelas == (0..(FILAS - 1)) \X (0..(COLS - 1))

\* Values of np.random.random() tried, in ten-thousandths: below every
\* threshold and above every threshold
FireDraws == {500, 9500}

\* The cell in which the draw of crear_bosque is tried with every value of
\* FireDraws; in the other cells it is 0.95
WetCells == {<<1, 1>>}

\* crear_bosque for the draws d of its loop
crear_bosque(d) ==
    [c \in Parcelas |-> IF d[c] < PROB_HUMEDAD THEN HUMEDO ELSE NORMAL]

\* The neighbour count with the indices fil + desf, col + desc taken as numpy
\* takes them without the range test: reduced modulo the extent
vecinos_incendiados_wrap(b, fil, col) ==
    Cardinality({o \in ({-1, 0, 1} \X {-1, 0, 1}) \ {<<0, 0>>} :
        b[<<(fil + o[1]) % FILAS, (col + o[2]) % COLS>>] = INCENDIADO})

\* vecinos_incendiados of cell (fil, col) in b (lines 59-68)
vecinos_incendiados(b, fil, col) ==
    Cardinality({o \in ({-1, 0, 1} \X {-1, 0, 1}) \ {<<0, 0>>} :
        /\ 0 <= fil + o[1] /\ fil + o[1] < FILAS
        /\ 0 <= col + o[2] /\ col + o[2] < COLS
        /\ b[<<fil + o[1], col + o[2]>>] = INCENDIADO})

\* The cells for which actualizar_bosque calls np.random.random() when it runs
NeedDraw(b) ==
    {c \in Parcelas :
        \/ b[c] = NORMAL /\ vecinos_incendiados(b, c[1], c[2]) > 0
        \/ b[c] = HUMEDO}

\* The update applied whether or not the simulation is running
actualizar_bosque_unpaused(b, run, d) ==
    [c \in Parcelas |->
        IF b[c] = INCENDIADO THEN QUEMADO
        ELSE IF b[c] = NORMAL
            THEN IF vecinos_incendiados(b, c[1], c[2]) > 0 /\ d[c] < PROB_incendio
                 THEN INCENDIADO ELSE NORMAL
        ELSE IF b[c] = HUMEDO
            THEN IF d[c] < PROB_SECADO THEN NORMAL ELSE HUMEDO
        ELSE b[c]]

\* actualizar_bosque(bosque) with `running` = run and the draws d
actualizar_bosque(b, run, d) ==
    IF ~run THEN b
    ELSE [c \in Parcelas |->
            IF b[c] = INCENDIADO THEN QUEMADO
            ELSE IF b[c] = NORMAL
                THEN IF vecinos_incendiados(b, c[1], c[2]) > 0 /\ d[c] < PROB_incendio
                     THEN INCENDIADO ELSE NORMAL
            ELSE IF b[c] = HUMEDO
                THEN IF d[c] < PROB_SECADO THEN NORMAL ELSE HUMEDO
            ELSE b[c]]

\* int(v) for the coordinate v = h / 2: truncation towards zero
int_of_half(h) == IF h >= 0 THEN h \div 2 ELSE -((-h) \div 2)

\* Coordinates event.xdata, event.ydata tried, in halves: -1.5 and -0.5 (int
\* gives -1 and 0), and the two around the last cell, COLS - 0.5 and COLS (int
\* gives COLS - 1 and COLS)
ClickHalves == {-3, -1, 2 * COLS - 1, 2 * COLS}

\* The click written into bosque[fil, col] with fil = int(xdata), col = int(ydata)
comclick_transposed(b, ev) ==
    IF ev.inaxes /\ ev.button = 1
    THEN LET fil == int_of_half(ev.xh)
             col == int_of_half(ev.yh)
         IN  IF 0 <= col /\ col < COLS /\ 0 <= fil /\ fil < FILAS
             THEN [b EXCEPT ![<<fil, col>>] = INCENDIADO]
             ELSE b
    ELSE b

\* comclick(event): the forest after the click ev
comclick(b, ev) ==
    IF ev.inaxes /\ ev.button = 1
    THEN LET fil == int_of_half(ev.xh)
             col == int_of_half(ev.yh)
         IN  IF 0 <= col /\ col < COLS /\ 0 <= fil /\ fil < FILAS
             THEN [b EXCEPT ![<<col, fil>>] = INCENDIADO]
             ELSE b
    ELSE b

\* The module level of proyecto.py: running = False, bosque = crear_bosque()
FireInit ==
    /\ NoSim
    /\ rule_in = <<>>
    /\ rule_out = <<>>
    /\ samp_in = <<>>
    /\ samp_out = <<>>
    /\ NoRng
    /\ NoCpu
    /\ \E dw \in [WetCells -> FireDraws] :
           bosque = crear_bosque([c \in Parcelas |->
                                     IF c \in WetCells THEN dw[c] ELSE 9500])
    /\ running = FALSE
    /\ event = [kind |-> "none", key |-> "", inaxes |-> FALSE, button |-> 0,
                xh |-> 0, yh |-> 0]
    /\ clicks = 0

\* Animación(frame), called by FuncAnimation every interval
Animacion ==
    /\ event # <<>>
    /\ \E d \in [NeedDraw(bosque) -> FireDraws] :
           bosque' = actualizar_bosque(bosque, running, d)
    /\ event' = [kind |-> "frame", key |-> "", inaxes |-> FALSE, button |-> 0,
                 xh |-> 0, yh |-> 0]
    /\ UNCHANGED <<simVars, rule_in, rule_out, samp_in, samp_out, rngVars, cpuVars,
                   running, clicks>>

\* llaveenc(event) for a key_press_event
llaveenc ==
    /\ event # <<>>
    /\ \E key \in {" ", "a"} :
           /\ running' = IF key = " " THEN ~running ELSE running
           /\ event' = [kind |-> "key", key |-> key, inaxes |-> FALSE, button |-> 0,
                        xh |-> 0, yh |-> 0]
    /\ UNCHANGED <<simVars, rule_in, rule_out, samp_in, samp_out, rngVars, cpuVars,
                   bosque, clicks>>

\* comclick(event) for a button_press_event; outside the axes xdata and ydata
\* are None and are not read
Click ==
    /\ event # <<>>
    /\ clicks < MaxClicks
    /\ \E inaxes \in BOOLEAN, button \in {1, 3}, xh \in ClickHalves, yh \in ClickHalves :
           LET ev == [kind |-> "click", key |-> "", inaxes |-> inaxes,
                      button |-> button, xh |-> xh, yh |-> yh]
           IN  /\ inaxes \/ (xh = 0 /\ yh = 0)
               /\ bosque' = comclick(bosque, ev)
               /\ event' = ev
    /\ clicks' = clicks + 1
    /\ UNCHANGED <<simVars, rule_in, rule_out, samp_in, samp_out, rngVars, cpuVars,
                   running>>

FireNext ==
    \/ Animacion
    \/ llaveenc
    \/ Click

FireSpec == FireInit /\ [][FireNext]_vars

\* ----------------------------------------------------------- the pause (C22)
\* C22: a frame delivered while running is False leaves bosque as it is, so a
\* paused forest changes only in a click; a key press leaves bosque alone and
\* flips running exactly when the key is the space bar.
C22_PausedForestFrozen ==
    /\ [][(~running /\ event'.kind = "frame") => bosque' = bosque]_vars
    /\ [][(~running /\ bosque' # bosque) => event'.kind = "click"]_vars
    /\ [][event'.kind = "key"
            => /\ bosque' = bosque
               /\ running' = (IF event'.key = " " THEN ~running ELSE running)]_vars

\* C22 witness: a frame has just run while paused and a burning tree is still
\* burning
C22_Witness ==
    /\ event # <<>>
    /\ event.kind = "frame"
    /\ ~running
    /\ \E c \in Parcelas : bosque[c] = INCENDIADO

\* --------------------------------------------------- one unpaused update (C23)
\* Cells c and e are distinct and at most one row and one column apart
Adjacent(c, e) ==
    /\ c # e
    /\ c[1] - e[1] \in {-1, 0, 1}
    /\ c[2] - e[2] \in {-1, 0, 1}

\* C23: in a frame delivered while running is True every INCENDIADO cell
\* becomes QUEMADO, a NORMAL cell stays NORMAL or becomes INCENDIADO, the
\* latter only with an INCENDIADO cell adjacent to it (inside the grid, no
\* wrap-around) in the old forest, a HUMEDO cell stays HUMEDO or becomes
\* NORMAL, and a QUEMADO cell stays QUEMADO.
C23_UpdateRelation ==
    [][(running /\ event'.kind = "frame")
         => \A c \in Parcelas :
               /\ bosque[c] = INCENDIADO => bosque'[c] = QUEMADO
               /\ bosque[c] = NORMAL
                    => /\ bosque'[c] \in {NORMAL, INCENDIADO}
                       /\ bosque'[c] = INCENDIADO
                            => \E e \in Parcelas :
                                  Adjacent(c, e) /\ bosque[e] = INCENDIADO
               /\ bosque[c] = HUMEDO => bosque'[c] \in {HUMEDO, NORMAL}
               /\ bosque[c] = QUEMADO => bosque'[c] = QUEMADO]_vars

\* C23 witness: after a single click the fire has spread in a running frame: a
\* burnt tree has a burning neighbour
C23_Witness ==
    /\ event # <<>>
    /\ event.kind = "frame"
    /\ running
    /\ clicks = 1
    /\ \E c \in Parcelas, e \in Parcelas :
          Adjacent(c, e) /\ bosque[c] = QUEMADO /\ bosque[e] = INCENDIADO

\* ------------------------------------------------------------ the click (C24)
\* The cell bosque[int(ydata), int(xdata)] of click ev
ClickedCell(ev) == <<int_of_half(ev.yh), int_of_half(ev.xh)>>

\* ev is a left click inside the axes whose cell is in the grid
InRange(ev) == ev.inaxes /\ ev.button = 1 /\ ClickedCell(ev) \in Parcelas

====
